---- MODULE Spec2Model ----
(***************************************************************************)
(* FusionMCP: the request cycle of FusionMCP.process_request, the static   *)
(* validators and the two script executors.                                *)
(*                                                                         *)
(* A script is the syntax tree ast.parse builds from its text (or a text   *)
(* that does not parse).  A string constant is a sequence of words, a      *)
(* source line a sequence of tokens.  Python's None is None where a dict   *)
(* is expected and NoneStr where a string is expected.                     *)
(***************************************************************************)
EXTENDS Integers, Sequences, FiniteSets, TLC

None == [none |-> TRUE]
NoneStr == "None"

(***************************************************************************)
(* Syntax trees (the node classes of Python's ast the validators look at)  *)
(***************************************************************************)
Name(id) == [k |-> "Name", id |-> id]
Attribute(value, attr) == [k |-> "Attribute", value |-> value, attr |-> attr]
Constant(words) == [k |-> "Constant", value |-> words]
Call(func, args) == [k |-> "Call", func |-> func, args |-> args]
Expr(value) == [k |-> "Expr", value |-> value]
Raise(exc) == [k |-> "Raise", exc |-> exc]
Import(names) == [k |-> "Import", names |-> names]
ImportFrom(module) == [k |-> "ImportFrom", module |-> module]
If(body) == [k |-> "If", body |-> body]
\* parse: what ast.parse does with the text ("ok", or the exception it raises)
Parsed(body) == [parse |-> "ok", body |-> body]
Unparseable(fault) == [parse |-> fault, body |-> <<>>]

\* ast.iter_child_nodes
Children(node) ==
    CASE node.k = "Expr" -> <<node.value>>
      [] node.k = "Raise" -> <<node.exc>>
      [] node.k = "Call" -> <<node.func>> \o node.args
      [] node.k = "Attribute" -> <<node.value>>
      [] node.k = "If" -> node.body
      [] OTHER -> <<>>

\* ast.walk: breadth-first, every node of the tree
RECURSIVE walk(_)
walk(todo) ==
    IF todo = <<>> THEN <<>>
    ELSE <<Head(todo)>> \o walk(Tail(todo) \o Children(Head(todo)))

(***************************************************************************)
(* Source lines of a parsed script, as the tokens the regex pass sees      *)
(***************************************************************************)
RECURSIVE Dotted(_)
Dotted(e) ==
    CASE e.k = "Name" -> <<e.id>>
      [] e.k = "Attribute" -> Dotted(e.value) \o <<".", e.attr>>
      [] e.k = "Call" -> Dotted(e.func) \o <<"(", ")">>
      [] OTHER -> <<>>

RECURSIVE ArgTokens(_)
ArgTokens(args) ==
    IF args = <<>> THEN <<>>
    ELSE (IF Head(args).k = "Constant"
          THEN <<"\"">> \o Head(args).value \o <<"\"">>
          ELSE Dotted(Head(args))) \o ArgTokens(Tail(args))

CallTokens(c) == Dotted(c.func) \o <<"(">> \o ArgTokens(c.args) \o <<")">>

RECURSIVE JoinNames(_)
JoinNames(names) ==
    IF names = <<>> THEN <<>> ELSE <<Head(names)>> \o JoinNames(Tail(names))

RECURSIVE SourceLines(_)
SourceLines(body) ==
    IF body = <<>> THEN <<>>
    ELSE LET s == Head(body)
             first ==
                CASE s.k = "Expr" -> <<CallTokens(s.value)>>
                  [] s.k = "Raise" -> <<(<<"raise">> \o CallTokens(s.exc))>>
                  [] s.k = "Import" -> <<(<<"import">> \o JoinNames(s.names))>>
                  [] s.k = "ImportFrom" -> <<(<<"from", s.module, "import", "*">>)>>
                  [] s.k = "If" -> <<(<<"if", "True", ":">>)>> \o SourceLines(s.body)
                  [] OTHER -> <<>>
         IN first \o SourceLines(Tail(body))

(***************************************************************************)
(* ScriptValidator and FusionScriptValidator                               *)
(***************************************************************************)
DANGEROUS_FUNCTIONS(profile) ==
    IF profile = "generic"
    THEN {"os.remove", "os.rmdir", "shutil.rmtree", "subprocess.call",
          "subprocess.run", "exec", "eval", "__import__", "open"}
    ELSE {"exec", "eval", "__import__"}

DANGEROUS_IMPORTS(profile) ==
    IF profile = "generic"
    THEN {"subprocess", "sys", "importlib", "urllib",
          "requests", "webbrowser", "socket", "ftplib"}
    ELSE {"subprocess", "sys", "importlib",
          "requests", "webbrowser", "socket", "ftplib"}

RECURSIVE get_attr_name(_)
get_attr_name(node) ==
    IF node.k = "Name" THEN node.id
    ELSE IF node.k = "Attribute"
         THEN get_attr_name(node.value) \o "." \o node.attr
         ELSE ""

\* _get_function_name, were the callee resolved to its last identifier only
get_function_name_last(call_node) ==
    IF call_node.func.k = "Name" THEN call_node.func.id
    ELSE IF call_node.func.k = "Attribute" THEN call_node.func.attr
         ELSE ""

get_function_name(call_node) ==
    IF call_node.func.k = "Name" THEN call_node.func.id
    ELSE IF call_node.func.k = "Attribute"
         THEN get_attr_name(call_node.func.value) \o "." \o call_node.func.attr
         ELSE ""

\* lines 61-64: one alias of an Import node
RECURSIVE VisitAliases(_, _, _)
VisitAliases(result, names, profile) ==
    IF names = <<>> THEN result
    ELSE VisitAliases(
            IF Head(names) \in DANGEROUS_IMPORTS(profile)
            THEN [result EXCEPT
                    !.errors = Append(@, "Dangerous import found: " \o Head(names)),
                    !.is_safe = FALSE]
            ELSE result,
            Tail(names), profile)

\* lines 60-75: the body of the loop over ast.walk(tree)
VisitNode(result, node, profile) ==
    CASE node.k = "Import" -> VisitAliases(result, node.names, profile)
      [] node.k = "ImportFrom" ->
            IF node.module \in DANGEROUS_IMPORTS(profile)
            THEN [result EXCEPT
                    !.errors = Append(@, "Dangerous import found: from " \o node.module),
                    !.is_safe = FALSE]
            ELSE result
      [] node.k = "Call" ->
            IF get_function_name(node) \in DANGEROUS_FUNCTIONS(profile)
            THEN [result EXCEPT
                    !.errors = Append(@, "Dangerous function call: "
                                          \o get_function_name(node)),
                    !.is_safe = FALSE]
            ELSE result
      [] OTHER -> result

RECURSIVE VisitNodes(_, _, _)
VisitNodes(result, nodes, profile) ==
    IF nodes = <<>> THEN result
    ELSE VisitNodes(VisitNode(result, Head(nodes), profile), Tail(nodes), profile)

\* re.search(r'\b(open|file)\b', line) and re.search(r'[\'"].*[\'"]', line)
LineWarns(line) ==
    /\ \E i \in 1..Len(line) : line[i] \in {"open", "file"}
    /\ Cardinality({i \in 1..Len(line) : line[i] = "\""}) >= 2

\* VisitLines, were a warning to count against the script
VisitLines_flags(result, lines, i) ==
    IF \E j \in i..Len(lines) : LineWarns(lines[j])
    THEN [result EXCEPT !.is_safe = FALSE,
                        !.warnings = Append(@, <<"Potential file operation on line", i>>)]
    ELSE result

\* lines 78-82: the loop over the lines of the text
RECURSIVE VisitLines(_, _, _)
VisitLines(result, lines, i) ==
    IF i > Len(lines) THEN result
    ELSE VisitLines(
            IF LineWarns(lines[i])
            THEN [result EXCEPT !.warnings = Append(@, <<"Potential file operation on line", i>>)]
            ELSE result,
            lines, i + 1)

\* validate_script, were a text that does not parse taken for an empty one
validate_script_no_parse_check(script, profile) ==
    VisitLines(VisitNodes([is_safe |-> TRUE, errors |-> <<>>, warnings |-> <<>>],
                          walk(script.body), profile),
               SourceLines(script.body), 1)

validate_script(script, profile) ==
    LET result == [is_safe |-> TRUE, errors |-> <<>>, warnings |-> <<>>]
    IN CASE script.parse = "SyntaxError" ->
                [result EXCEPT !.errors = Append(@, "Syntax error: invalid syntax"),
                               !.is_safe = FALSE]
         [] script.parse = "ValueError" ->
                [result EXCEPT !.errors = Append(@, "Validation error: source code string cannot contain null bytes"),
                               !.is_safe = FALSE]
         [] OTHER ->
                VisitLines(VisitNodes(result, walk(script.body), profile),
                           SourceLines(script.body), 1)

(***************************************************************************)
(* What exec(script, exec_globals) does: the interpreter on the tree       *)
(***************************************************************************)
\* the names of command_executor.py lines 177-229
ALLOWED_BUILTINS ==
    {"print", "len", "range", "enumerate", "zip", "map", "filter", "sum", "min",
     "max", "abs", "round", "str", "int", "float", "bool", "list", "dict",
     "tuple", "set", "frozenset", "type", "isinstance", "issubclass", "hasattr",
     "getattr", "setattr", "delattr", "dir", "vars", "id", "hash", "callable",
     "iter", "next", "reversed", "sorted", "all", "any", "divmod", "pow", "chr",
     "ord", "hex", "oct", "bin", "complex", "property", "staticmethod",
     "classmethod", "super", "object", "__import__"}

\* exception classes of the interpreter; the second set derives from
\* BaseException only, so that "except Exception" does not catch them
EXCEPTION_CLASSES == {"Exception", "RuntimeError", "ValueError", "ZeroDivisionError"}
BASE_ONLY_CLASSES == {"SystemExit", "KeyboardInterrupt", "GeneratorExit"}

\* the interpreter's builtins module (fusion_command_executor.py line 162)
PYTHON_BUILTINS ==
    ALLOWED_BUILTINS \cup EXCEPTION_CLASSES \cup BASE_ONLY_CLASSES
        \cup {"open", "eval", "exec", "compile", "input", "exit", "quit"}

IsException(cls) == cls \notin BASE_ONLY_CLASSES

Fault(cls, msg) == [cls |-> cls, msg |-> msg]

\* an exception on its way out of the function named origin
Escaped(fault, origin) == [cls |-> fault.cls, msg |-> fault.msg, origin |-> origin]

\* a string where a script text may stand too
Text(string) == [text |-> string]

\* modules import can find; adsk only inside Fusion 360
Importable(in_fusion) ==
    {"os", "os.path", "builtins", "math", "shutil", "subprocess", "sys",
     "importlib", "urllib", "urllib.request", "socket"}
        \cup (IF in_fusion THEN {"adsk", "adsk.core", "adsk.fusion"} ELSE {})

\* the name "import a.b" binds
TopLevel(module) ==
    CASE module \in {"os", "os.path"} -> "os"
      [] module \in {"urllib", "urllib.request"} -> "urllib"
      [] module \in {"adsk", "adsk.core", "adsk.fusion"} -> "adsk"
      [] OTHER -> module

Val(t, name) == [t |-> t, name |-> name]
NoneVal == Val("NoneType", "None")

RECURSIVE JoinWords(_)
JoinWords(words) ==
    IF words = <<>> THEN ""
    ELSE IF Len(words) = 1 THEN Head(words)
         ELSE Head(words) \o " " \o JoinWords(Tail(words))

\* str(v) of a value, as print and the exception constructors use it
StrOf(v) == IF v.t = "str" THEN JoinWords(v.words) ELSE "<" \o v.t \o ">"

\* getattr(v, attr)
GetAttr(v, attr) ==
    CASE v.t = "module" /\ v.name = "builtins" ->
            IF attr \in PYTHON_BUILTINS
            THEN [v |-> Val("builtin", attr), fault |-> None]
            ELSE [v |-> NoneVal, fault |-> Fault("AttributeError", attr)]
      [] v.t = "module" \/ v.t = "host" ->
            [v |-> Val(v.t, v.name \o "." \o attr), fault |-> None]
      \* MockModule.__getattr__ (lines 256-262); core, fusion and cam are
      \* instance attributes of mock_adsk (lines 266-268)
      [] v.t = "MockModule" ->
            IF v.name = "adsk" /\ attr \in {"core", "fusion", "cam"}
            THEN [v |-> Val("MockModule", v.name \o "." \o attr), fault |-> None]
            ELSE IF attr \in {"__call__", "__len__", "__iter__"}
                 THEN [v |-> NoneVal, fault |-> Fault("AttributeError", attr)]
                 ELSE [v |-> Val("function", v.name \o "." \o attr), fault |-> None]
      [] OTHER ->
            [v |-> NoneVal,
             fault |-> Fault("AttributeError",
                             "'" \o v.t \o "' object has no attribute '" \o attr \o "'")]

RECURSIVE ArgText(_)
ArgText(vals) ==
    IF vals = <<>> THEN ""
    ELSE IF Len(vals) = 1 THEN StrOf(Head(vals))
         ELSE StrOf(Head(vals)) \o " " \o ArgText(Tail(vals))

\* v(*args): the value, the text written to sys.stdout and the fault raised
Apply(v, args) ==
    LET ret(r) == [v |-> r, out |-> <<>>, fault |-> None]
        raise(f) == [v |-> NoneVal, out |-> <<>>, fault |-> f]
    IN CASE v.t = "builtin" /\ v.name = "print" ->
                [v |-> NoneVal, out |-> <<ArgText(args)>>, fault |-> None]
         [] v.t = "builtin" /\ v.name \in (EXCEPTION_CLASSES \cup BASE_ONLY_CLASSES) ->
                ret([t |-> "exception", name |-> v.name, msg |-> ArgText(args)])
         [] v.t = "builtin" /\ v.name \in {"exit", "quit"} ->
                raise(Fault("SystemExit", ArgText(args)))
         [] v.t = "builtin" -> ret(NoneVal)
         [] v.t = "function" -> ret(Val("MockModule", v.name))
         [] v.t \in {"module", "host"} -> ret(Val(v.t, v.name \o "()"))
         [] OTHER ->
                raise(Fault("TypeError", "'" \o v.t \o "' object is not callable"))

RECURSIVE Eval(_, _, _)
RECURSIVE EvalArgs(_, _, _)
\* the value of an expression under globals g and builtins b
Eval(e, g, b) ==
    CASE e.k = "Constant" ->
            [v |-> [t |-> "str", words |-> e.value], out |-> <<>>, fault |-> None]
      [] e.k = "Name" ->
            IF e.id \in DOMAIN g
            THEN [v |-> g[e.id], out |-> <<>>, fault |-> None]
            ELSE IF e.id \in b
                 THEN [v |-> Val("builtin", e.id), out |-> <<>>, fault |-> None]
                 ELSE [v |-> NoneVal, out |-> <<>>,
                       fault |-> Fault("NameError",
                                       "name '" \o e.id \o "' is not defined")]
      [] e.k = "Attribute" ->
            LET r == Eval(e.value, g, b)
            IN IF r.fault # None THEN r
               ELSE LET a == GetAttr(r.v, e.attr)
                    IN [v |-> a.v, out |-> r.out, fault |-> a.fault]
      [] e.k = "Call" ->
            LET f == Eval(e.func, g, b)
            IN IF f.fault # None THEN f
               ELSE LET as == EvalArgs(e.args, g, b)
                    IN IF as.fault # None
                       THEN [v |-> NoneVal, out |-> f.out \o as.out, fault |-> as.fault]
                       ELSE LET r == Apply(f.v, as.vals)
                            IN [v |-> r.v, out |-> f.out \o as.out \o r.out,
                                fault |-> r.fault]
      [] OTHER -> [v |-> NoneVal, out |-> <<>>, fault |-> None]

EvalArgs(args, g, b) ==
    IF args = <<>> THEN [vals |-> <<>>, out |-> <<>>, fault |-> None]
    ELSE LET h == Eval(Head(args), g, b)
         IN IF h.fault # None THEN [vals |-> <<>>, out |-> h.out, fault |-> h.fault]
            ELSE LET t == EvalArgs(Tail(args), g, b)
                 IN [vals |-> <<h.v>> \o t.vals, out |-> h.out \o t.out,
                     fault |-> t.fault]

Bind(g, name, v) == [n \in DOMAIN g \cup {name} |-> IF n = name THEN v ELSE g[n]]

RECURSIVE ImportNames(_, _, _)
ImportNames(names, g, in_fusion) ==
    IF names = <<>> THEN [g |-> g, fault |-> None]
    ELSE IF Head(names) \notin Importable(in_fusion)
         THEN [g |-> g,
               fault |-> Fault("ModuleNotFoundError",
                               "No module named '" \o Head(names) \o "'")]
         ELSE ImportNames(Tail(names),
                          Bind(g, TopLevel(Head(names)),
                               Val("module", TopLevel(Head(names)))),
                          in_fusion)

RECURSIVE ExecBody(_, _, _, _)
\* the statements of body in order, until one raises; st = [g, out, fault]
ExecBody(body, st, b, in_fusion) ==
    IF body = <<>> \/ st.fault # None THEN st
    ELSE LET s == Head(body)
             st1 ==
                CASE s.k = "Expr" ->
                        LET r == Eval(s.value, st.g, b)
                        IN [g |-> st.g, out |-> st.out \o r.out, fault |-> r.fault]
                  [] s.k = "Raise" ->
                        LET r == Eval(s.exc, st.g, b)
                        IN [g |-> st.g, out |-> st.out \o r.out,
                            fault |-> IF r.fault # None THEN r.fault
                                      ELSE IF r.v.t = "exception"
                                           THEN Fault(r.v.name, r.v.msg)
                                           ELSE Fault("TypeError",
                                                "exceptions must derive from BaseException")]
                  [] s.k = "Import" ->
                        LET r == ImportNames(s.names, st.g, in_fusion)
                        IN [g |-> r.g, out |-> st.out, fault |-> r.fault]
                  [] s.k = "ImportFrom" ->
                        [g |-> st.g, out |-> st.out,
                         fault |-> IF s.module \in Importable(in_fusion) THEN None
                                   ELSE Fault("ModuleNotFoundError",
                                              "No module named '" \o s.module \o "'")]
                  [] s.k = "If" -> ExecBody(s.body, st, b, in_fusion)
                  [] OTHER -> st
         IN ExecBody(Tail(body), st1, b, in_fusion)

(***************************************************************************)
(* Texts the plugin matcher compares: sequences of characters              *)
(***************************************************************************)
LowerChar(c) ==
    CASE c = "D" -> "d" [] c = "B" -> "b" [] c = "C" -> "c" [] c = "V" -> "v"
      [] c = "M" -> "m" [] c = "A" -> "a" [] c = "S" -> "s" [] c = "T" -> "t"
      [] c = "G" -> "g" [] c = "O" -> "o" [] c = "I" -> "i"
      [] OTHER -> c

\* str.lower
lower(text) == [i \in 1..Len(text) |-> LowerChar(text[i])]

\* a in b, for strings
IsSubstring(a, b) ==
    \E i \in 0..(Len(b) - Len(a)) : SubSeq(b, i + 1, i + Len(a)) = a

(***************************************************************************)
(* Bounds and the inputs the model draws from                              *)
(***************************************************************************)
MaxCycles == 1
MaxClock == 1

\* print("Cube created")
ScriptCube == Parsed(<<Expr(Call(Name("print"), <<Constant(<<"Cube", "created">>)>>))>>)
\* raise RuntimeError("boom")
ScriptBoom == Parsed(<<Raise(Call(Name("RuntimeError"), <<Constant(<<"boom">>)>>))>>)
\* print("step"); adsk.core.Application.get()
ScriptApi ==
    Parsed(<<Expr(Call(Name("print"), <<Constant(<<"step">>)>>)),
             Expr(Call(Attribute(Attribute(Attribute(Name("adsk"), "core"),
                                           "Application"), "get"), <<>>))>>)
\* def f(:
ScriptSyntax == Unparseable("SyntaxError")
\* import subprocess
ScriptSubprocess == Parsed(<<Import(<<"subprocess">>)>>)
\* import os; os.remove("open file")
ScriptRemove ==
    Parsed(<<Import(<<"os">>),
             Expr(Call(Attribute(Name("os"), "remove"), <<Constant(<<"open", "file">>)>>))>>)
\* import builtins; print("bye"); raise builtins.SystemExit("stop")
ScriptExit ==
    Parsed(<<Import(<<"builtins">>),
             Expr(Call(Name("print"), <<Constant(<<"bye">>)>>)),
             Raise(Call(Attribute(Name("builtins"), "SystemExit"),
                        <<Constant(<<"stop">>)>>))>>)

ScriptPool ==
    {ScriptCube, ScriptBoom, ScriptApi, ScriptSyntax, ScriptSubprocess,
     ScriptRemove, ScriptExit}

\* a plugin: its name, its description and what execute({}) returns
PluginDb ==
    [name |-> <<"d", "b">>, description |-> <<"m", "a", "t">>,
     result |-> [success |-> FALSE, error |-> "Material not found"]]
PluginCv ==
    [name |-> <<"c", "v">>, description |-> <<"s", "t">>,
     result |-> [success |-> TRUE, output |-> "converted"]]
PluginPool == {PluginDb, PluginCv}

\* "cube" names no plugin; "MAT Cv" holds the description of PluginDb and
\* the name of PluginCv
RequestPool == {<<"c", "u", "b", "e">>, <<"M", "A", "T", " ", "C", "v">>}

VARIABLES
    in_fusion,          \* adsk.core and adsk.fusion can be imported
    fusion_app,         \* FusionMCP.fusion_app: "None" or "app"
    command_executor,   \* class of FusionMCP.command_executor
    plugins,            \* PluginManager.plugins, in insertion order
    sys_stdout,         \* the object sys.stdout names (0: the original stream)
    sys_stderr,         \* the object sys.stderr names (1: the original stream)
    buffers,            \* what was written to each stream object
    interactions,       \* SessionContext.interactions
    context_data,       \* PersistentContext.context_data
    clock,              \* int(time.time()) at the last reading
    pc,                 \* position in process_request
    user_request,       \* argument of process_request
    script,             \* local script of process_request
    fixed_script,       \* local fixed_script of process_request
    execution_result,   \* local execution_result of process_request
    frame,              \* the locals of the execute_script call in progress
    returned,           \* the value process_request returned
    raised,             \* the exception that left process_request
    events,             \* the calls made in this request cycle, in order
    cycles,             \* request cycles started
    v_validator,        \* a validator called on its own: its class
    v_script,           \* the text handed to its validate_script
    v_result,           \* the verdict validate_script returned
    v_before,           \* the verdict of the call before the text was extended
    runs,               \* execute_script calls made from two threads: their locals
    config,             \* the configuration file's entries and the environment's
    provider,           \* AIInterface.provider: the class constructed, or "unset"
    added,              \* calls of ContextManager.add_interaction so far
    recent,             \* the last get_recent_context call and what it returned
    should_execute      \* the add-in's Execute input

vars ==
    <<in_fusion, fusion_app, command_executor, plugins, sys_stdout, sys_stderr,
      buffers, interactions, context_data, clock, pc, user_request, script,
      fixed_script, execution_result, frame, returned, raised, events, cycles,
      v_validator, v_script, v_result, v_before,
      runs, config, provider, added, recent, should_execute>>

env_vars == <<in_fusion, fusion_app, command_executor, plugins>>
chan_vars == <<sys_stdout, sys_stderr, buffers>>
ctx_vars == <<interactions, context_data, clock>>
caller_vars == <<runs, config, provider, added, recent, should_execute>>
direct_vars == <<v_validator, v_script, v_result, v_before, caller_vars>>
program_vars ==
    <<env_vars, chan_vars, ctx_vars, pc, user_request, script, fixed_script,
      execution_result, frame, returned, raised, events, cycles>>

\* time.time() now: the second of the last reading or a later one
Times == {t \in 0..MaxClock : t >= clock /\ t <= clock + 1}

ORIGINAL_STDOUT == 0
ORIGINAL_STDERR == 1

NoFrame ==
    [xpc |-> "none", script |-> None, validation_result |-> None,
     old_stdout |-> -1, old_stderr |-> -1, stdout_capture |-> -1,
     stderr_capture |-> -1, exec_globals |-> <<>>, fault |-> None]

InitObjects ==
    /\ in_fusion \in BOOLEAN
    /\ fusion_app = "None"
    /\ command_executor = "CommandExecutor"
    /\ plugins = <<>>
    /\ sys_stdout = ORIGINAL_STDOUT
    /\ sys_stderr = ORIGINAL_STDERR
    /\ buffers = [i \in {ORIGINAL_STDOUT, ORIGINAL_STDERR} |-> <<>>]
    /\ interactions = <<>>
    /\ context_data = <<>>
    /\ clock = 0
    /\ user_request = <<>>
    /\ script = None
    /\ fixed_script = None
    /\ execution_result = None
    /\ frame = NoFrame
    /\ returned = None
    /\ raised = None
    /\ events = <<>>
    /\ cycles = 0

\* the FusionMCP object, constructed and waiting for a request
InitProgram ==
    /\ InitObjects
    /\ pc = "idle"

\* no validator is being called on its own
NoValidatorCall ==
    /\ v_validator = "ScriptValidator"
    /\ v_script = None
    /\ v_result = None
    /\ v_before = None

\* nothing but process_request is calling into the objects; the provider
\* is the one of the local model server
\* the configuration under which the request cycle is studied: a local
\* Ollama backend, which needs no key (ai_interface.py lines 255-258)
OllamaConfig ==
    [ai_provider |-> <<"o", "l", "l", "a", "m", "a">>, keys |-> {}, env |-> {}]

NoCallers ==
    /\ runs = <<>>
    /\ config = OllamaConfig
    /\ provider = "OllamaProvider"
    /\ added = 0
    /\ recent = None
    /\ should_execute = FALSE

Init ==
    /\ InitProgram
    /\ NoValidatorCall
    /\ NoCallers

(***************************************************************************)
(* ContextManager                                                          *)
(***************************************************************************)
MAX_INTERACTIONS == 50

\* SessionContext.add_interaction
SessionAdd(list, interaction) ==
    LET l == Append(list, interaction)
    IN IF Len(l) > MAX_INTERACTIONS
       THEN SubSeq(l, Len(l) - MAX_INTERACTIONS + 1, Len(l))
       ELSE l

\* json can encode strings, numbers, None, lists and dicts of them; the
\* namespace of a run holds functions, classes and modules
HasObjects(g) == \E n \in DOMAIN g : g[n].t \notin {"str", "NoneType"}

JsonSerializable(v) ==
    \/ "result" \notin DOMAIN v
    \/ v.result = None
    \/ ~HasObjects(v.result)

\* PersistentContext.store_data and _save_context
StoreData(data, key, value, t) ==
    [k \in DOMAIN data \cup {key} |->
        IF k = key THEN [value |-> value, timestamp |-> t] ELSE data[k]]

SaveRaises(data) ==
    \E k \in DOMAIN data : ~JsonSerializable(data[k].value.execution_result)

\* mutation of add_interaction: the record is stored on disk only, the
\* session list is left as it was
add_interaction_no_session(list, data, user_input, ai_response, result, t) ==
    LET d == StoreData(data, <<t, Len(list) + 1>>,
                       [user_input |-> user_input, ai_response |-> ai_response,
                        execution_result |-> result], t)
    IN [interactions |-> list,
        context_data |-> d,
        fault |-> IF SaveRaises(d)
                  THEN Fault("TypeError", "Object is not JSON serializable")
                  ELSE None]

\* ContextManager.add_interaction at time t: the new session list, the new
\* persistent data and the exception json.dump raises, if any
add_interaction(list, data, user_input, ai_response, result, t) ==
    LET l == SessionAdd(list, [timestamp |-> t, user_input |-> user_input,
                               ai_response |-> ai_response,
                               execution_result |-> result])
        d == StoreData(data, <<t, Len(l)>>,
                       [user_input |-> user_input, ai_response |-> ai_response,
                        execution_result |-> result], t)
    IN [interactions |-> l,
        context_data |-> d,
        fault |-> IF SaveRaises(d)
                  THEN Fault("TypeError", "Object is not JSON serializable")
                  ELSE None]

(***************************************************************************)
(* PluginManager                                                           *)
(***************************************************************************)
PluginMatches(p, request) ==
    \/ IsSubstring(lower(p.name), lower(request))
    \/ IsSubstring(lower(p.description), lower(request))

\* the plugin execute_plugin_if_appropriate runs (0: none)
FirstMatch(request) ==
    LET m == {i \in 1..Len(plugins) : PluginMatches(plugins[i], request)}
    IN IF m = {} THEN 0 ELSE CHOOSE i \in m : \A j \in m : i <= j

\* mutation of execute_plugin_if_appropriate: only a request that is the
\* plugin's name, letter for letter, runs the plugin
execute_plugin_if_appropriate_exact(request) ==
    IF \E i \in 1..Len(plugins) : plugins[i].name = request
    THEN plugins[CHOOSE i \in 1..Len(plugins) : plugins[i].name = request].result
    ELSE None

execute_plugin_if_appropriate(request) ==
    IF FirstMatch(request) = 0 THEN None ELSE plugins[FirstMatch(request)].result

register_plugin(p) ==
    /\ pc = "idle"
    /\ plugins' =
          IF \E i \in 1..Len(plugins) : plugins[i].name = p.name
          THEN [i \in 1..Len(plugins) |->
                    IF plugins[i].name = p.name THEN p ELSE plugins[i]]
          ELSE Append(plugins, p)
    /\ plugins' # plugins
    /\ UNCHANGED direct_vars
    /\ UNCHANGED <<in_fusion, fusion_app, command_executor, chan_vars, ctx_vars,
                   pc, user_request, script, fixed_script, execution_result,
                   frame, returned, raised, events, cycles>>

(***************************************************************************)
(* FusionMCP                                                               *)
(***************************************************************************)
set_fusion_app ==
    /\ pc = "idle"
    /\ fusion_app = "None"
    /\ fusion_app' = "app"
    /\ command_executor' =
          IF in_fusion THEN "FusionCommandExecutor" ELSE command_executor
    /\ UNCHANGED direct_vars
    /\ UNCHANGED <<in_fusion, plugins, chan_vars, ctx_vars, pc, user_request,
                   script, fixed_script, execution_result, frame, returned,
                   raised, events, cycles>>

\* the caller of process_request survives the exception that left it:
\* handle_user_input catches Exception, the add-in's handler catches all
CallerContinues ==
    \/ pc \in {"idle", "done"}
    \/ /\ pc = "raised"
       /\ IsException(raised.cls) \/ (in_fusion /\ fusion_app = "app")

NewFrame(s) == [NoFrame EXCEPT !.xpc = "validate", !.script = s]

\* process_request lines 84-88
PR_Begin(request, t) ==
    /\ CallerContinues
    /\ cycles < MaxCycles
    /\ t >= clock
    /\ LET r == add_interaction(interactions, context_data, request, Text(""), None, t)
       IN /\ interactions' = r.interactions
          /\ context_data' = r.context_data
          /\ clock' = t
          /\ events' = <<[e |-> "history", ai_response |-> Text(""), outcome |-> None]>>
          /\ raised' = IF r.fault = None THEN None
                        ELSE Escaped(r.fault, "add_interaction")
          /\ pc' = IF r.fault = None THEN "plugins" ELSE "raised"
    /\ user_request' = request
    /\ cycles' = cycles + 1
    /\ script' = None
    /\ fixed_script' = None
    /\ execution_result' = None
    /\ returned' = None
    /\ frame' = NoFrame
    /\ UNCHANGED direct_vars
    /\ UNCHANGED <<env_vars, chan_vars>>

\* lines 94-99
PluginRecord(plugin_result) ==
    [type |-> "plugin_result", plugin_result |-> plugin_result,
     script_generated |-> FALSE, execution_result |-> None]

\* mutation of ScriptRecord: the tag of the other path
ScriptRecord_as_plugin(generated_script, outcome) ==
    [type |-> "plugin_result",
     script_generated |-> TRUE,
     generated_script |-> generated_script,
     execution_result |-> outcome]

\* lines 129-134
ScriptRecord(generated_script, outcome) ==
    [type |-> "fusion_script",
     script_generated |-> TRUE,
     generated_script |-> generated_script,
     execution_result |-> outcome]

\* process_request lines 90-105: a plugin matched and succeeded
PR_PluginResult(t) ==
    /\ pc = "plugins"
    /\ t >= clock
    /\ LET plugin_result == execute_plugin_if_appropriate(user_request)
           result == PluginRecord(plugin_result)
       IN /\ plugin_result # None /\ plugin_result.success
          /\ LET r == add_interaction(interactions, context_data, user_request,
                                      Text("Plugin result"), result, t)
             IN /\ interactions' = r.interactions
                /\ context_data' = r.context_data
                /\ clock' = t
                /\ raised' = IF r.fault = None THEN None
                              ELSE Escaped(r.fault, "add_interaction")
                /\ pc' = IF r.fault = None THEN "done" ELSE "raised"
                /\ returned' = IF r.fault = None THEN result ELSE None
          /\ events' = events \o
                <<[e |-> "plugin", name |-> plugins[FirstMatch(user_request)].name],
                  [e |-> "history", ai_response |-> Text("Plugin result"),
                   outcome |-> result]>>
    /\ UNCHANGED direct_vars
    /\ UNCHANGED <<env_vars, chan_vars, user_request, script, fixed_script,
                   execution_result, frame, cycles>>

(***************************************************************************)
(* The generation backend (OllamaProvider.generate_response): the reply of *)
(* the model, or the text the provider returns in place of it when the     *)
(* transport fails.  Neither text parses as Python.                        *)
(***************************************************************************)
ErrorText(message) == [parse |-> "SyntaxError", body |-> <<>>, text |-> message]
CONNECT_ERROR_TEXT ==
    ErrorText("Error: Could not connect to local LLM server. Please ensure Ollama or LM Studio is running.")
TIMEOUT_ERROR_TEXT ==
    ErrorText("Error: Request to local LLM server timed out. Please check your model and try again.")
BackendOutcomes == {"ok", "ConnectionError", "Timeout"}

\* what generate_response returns when the backend call ends as `backend`
\* and the model, if reached, replies `reply`
generate_response(reply, backend) ==
    IF backend = "ConnectionError" THEN CONNECT_ERROR_TEXT
    ELSE IF backend = "Timeout" THEN TIMEOUT_ERROR_TEXT
    ELSE reply

\* process_request lines 91-92, 107-114: no plugin result to return; the
\* generation backend answers with any text
PR_Generate(s, backend) ==
    /\ pc = "plugins"
    /\ backend # "ok" => s = ScriptCube
    /\ LET plugin_result == execute_plugin_if_appropriate(user_request)
       IN /\ ~(plugin_result # None /\ plugin_result.success)
          /\ events' = events \o
                (IF plugin_result = None THEN <<>>
                 ELSE <<[e |-> "plugin",
                         name |-> plugins[FirstMatch(user_request)].name]>>)
                \o <<[e |-> "generate", request |-> user_request,
                      backend |-> backend]>>
    /\ script' = generate_response(s, backend)
    /\ frame' = NewFrame(generate_response(s, backend))
    /\ pc' = "exec1"
    /\ UNCHANGED direct_vars
    /\ UNCHANGED <<env_vars, chan_vars, ctx_vars, user_request, fixed_script,
                   execution_result, returned, raised, cycles>>

(***************************************************************************)
(* CommandExecutor.execute_script and FusionCommandExecutor.execute_script *)
(***************************************************************************)
Profile(executor) == IF executor = "CommandExecutor" THEN "generic" ELSE "fusion"

\* the __builtins__ of exec_globals
Builtins(executor) ==
    IF executor = "CommandExecutor" THEN ALLOWED_BUILTINS ELSE PYTHON_BUILTINS

\* exec_globals before the run (command_executor.py lines 175-274,
\* fusion_command_executor.py lines 161-175)
ExecGlobals(executor, app, importable) ==
    LET base == Bind(<<>>, "__builtins__", Val("builtins", Profile(executor)))
        host == IF importable
                THEN Bind(Bind(Bind(Bind(base, "app", Val("host", "app")),
                                    "adsk", Val("host", "adsk")),
                               "core", Val("host", "adsk.core")),
                          "fusion", Val("host", "adsk.fusion"))
                ELSE Bind(base, "app", Val("host", "app"))
        mock == Bind(Bind(Bind(Bind(base, "adsk", Val("MockModule", "adsk")),
                               "core", Val("MockModule", "adsk.core")),
                          "fusion", Val("MockModule", "adsk.fusion")),
                     "cam", Val("MockModule", "adsk.cam"))
    IN IF app # "None" THEN host
       ELSE IF executor = "CommandExecutor" THEN mock ELSE base

\* the places execute_script is called from: process_request lines 113 and
\* 119, and the add-in's execute handler (FusionMCP.py line 169)
ExecPositions == {"exec1", "exec2", "addin_exec"}

\* where process_request goes on when execute_script returns outcome
AfterCall(outcome) ==
    IF pc = "exec1" THEN (IF outcome.success THEN "log" ELSE "fix")
    ELSE IF pc = "exec2" THEN "log"
    ELSE "idle"

\* mutation of Refused: the gate of line 147 left out
Refused_never(validation_result) == FALSE

\* line 147: if not validation_result['is_safe']
Refused(validation_result) == ~validation_result.is_safe

\* mutation of ValidationFailed: the record of a run that found nothing wrong
ValidationFailed_as_success(validation_result) ==
    [success |-> TRUE,
     error |-> NoneStr,
     details |-> validation_result,
     output |-> <<>>,
     result |-> None]

\* lines 148-154: the outcome of a refused script
ValidationFailed(validation_result) ==
    [success |-> FALSE,
     error |-> "Script validation failed",
     details |-> validation_result,
     output |-> <<>>,
     result |-> None]

\* lines 144-157: the validation and the early return
ES_Validate ==
    /\ pc \in ExecPositions
    /\ frame.xpc = "validate"
    /\ LET validation_result ==
              validate_script(frame.script, Profile(command_executor))
           validated == [e |-> "validate", script |-> frame.script,
                         is_safe |-> validation_result.is_safe]
       IN /\ IF Refused(validation_result)
             THEN LET outcome == ValidationFailed(validation_result)
                  IN /\ execution_result' = outcome
                     /\ events' = events \o
                            <<validated, [e |-> "return", outcome |-> outcome]>>
                     /\ frame' = NoFrame
                     /\ pc' = AfterCall(outcome)
             ELSE /\ frame' = [frame EXCEPT !.validation_result = validation_result,
                                            !.xpc = "setup"]
                  /\ events' = Append(events, validated)
                  /\ UNCHANGED <<execution_result, pc>>
    /\ UNCHANGED direct_vars
    /\ UNCHANGED <<env_vars, chan_vars, ctx_vars, user_request, script,
                   fixed_script, returned, raised, cycles>>

\* lines 159-274: the channels are swapped and the namespace is built
ES_Setup ==
    /\ pc \in ExecPositions
    /\ frame.xpc = "setup"
    /\ LET stdout_capture == Cardinality(DOMAIN buffers)
           stderr_capture == Cardinality(DOMAIN buffers) + 1
       IN /\ frame' = [frame EXCEPT
                          !.old_stdout = sys_stdout,
                          !.old_stderr = sys_stderr,
                          !.stdout_capture = stdout_capture,
                          !.stderr_capture = stderr_capture,
                          !.exec_globals =
                              ExecGlobals(command_executor, fusion_app, in_fusion),
                          !.xpc = "exec"]
          /\ sys_stdout' = stdout_capture
          /\ sys_stderr' = stderr_capture
          /\ buffers' = [i \in DOMAIN buffers \cup {stdout_capture, stderr_capture} |->
                            IF i \in DOMAIN buffers THEN buffers[i] ELSE <<>>]
    /\ UNCHANGED direct_vars
    /\ UNCHANGED <<env_vars, ctx_vars, pc, user_request, script, fixed_script,
                   execution_result, returned, raised, events, cycles>>

\* line 277: exec(script, exec_globals); print writes to sys.stdout
ES_Exec ==
    /\ pc \in ExecPositions
    /\ frame.xpc = "exec"
    /\ LET st == ExecBody(frame.script.body,
                          [g |-> frame.exec_globals, out |-> <<>>, fault |-> None],
                          Builtins(command_executor), in_fusion)
       IN /\ frame' = [frame EXCEPT !.exec_globals = st.g, !.fault = st.fault,
                                    !.xpc = "ran"]
          /\ buffers' = [buffers EXCEPT ![sys_stdout] = @ \o st.out]
    /\ events' = Append(events, [e |-> "exec", script |-> frame.script])
    /\ UNCHANGED direct_vars
    /\ UNCHANGED <<env_vars, sys_stdout, sys_stderr, ctx_vars, pc, user_request,
                   script, fixed_script, execution_result, returned, raised,
                   cycles>>

\* Completed, were the captured output left out of the record
Completed_no_output(validation_result, output, error_output, exec_globals) ==
    [success |-> TRUE,
     error |-> NoneStr,
     details |-> validation_result,
     output |-> <<>>,
     error_output |-> error_output,
     result |-> exec_globals]

\* lines 289-296: the record of a run that completed
Completed(validation_result, output, error_output, exec_globals) ==
    [success |-> TRUE,
     error |-> NoneStr,
     details |-> validation_result,
     output |-> output,
     error_output |-> error_output,
     result |-> exec_globals]

\* lines 279-296: the run ended normally
ES_Return ==
    /\ pc \in ExecPositions
    /\ frame.xpc = "ran"
    /\ frame.fault = None
    /\ sys_stdout' = frame.old_stdout
    /\ sys_stderr' = frame.old_stderr
    /\ LET outcome == Completed(frame.validation_result,
                                buffers[frame.stdout_capture],
                                buffers[frame.stderr_capture],
                                frame.exec_globals)
       IN /\ execution_result' = outcome
          /\ pc' = AfterCall(outcome)
          /\ events' = Append(events, [e |-> "return", outcome |-> outcome])
    /\ frame' = NoFrame
    /\ UNCHANGED direct_vars
    /\ UNCHANGED <<env_vars, buffers, ctx_vars, user_request, script,
                   fixed_script, returned, raised, cycles>>

\* lines 298-313: except Exception
ES_Except ==
    /\ pc \in ExecPositions
    /\ frame.xpc = "ran"
    /\ frame.fault # None
    /\ IsException(frame.fault.cls)
    /\ sys_stdout' = frame.old_stdout
    /\ sys_stderr' = frame.old_stderr
    /\ LET outcome == [success |-> FALSE,
                       error |-> frame.fault.msg,
                       details |-> frame.validation_result,
                       output |-> buffers[frame.stdout_capture],
                       error_output |-> buffers[frame.stderr_capture],
                       result |-> None]
       IN /\ execution_result' = outcome
          /\ pc' = AfterCall(outcome)
          /\ events' = Append(events, [e |-> "return", outcome |-> outcome])
    /\ frame' = NoFrame
    /\ UNCHANGED direct_vars
    /\ UNCHANGED <<env_vars, buffers, ctx_vars, user_request, script,
                   fixed_script, returned, raised, cycles>>

\* a fault that is no Exception passes the except clause of line 298 and
\* leaves execute_script and process_request
ES_Escape ==
    /\ pc \in ExecPositions
    /\ frame.xpc = "ran"
    /\ frame.fault # None
    /\ ~IsException(frame.fault.cls)
    /\ raised' = Escaped(frame.fault, "execute_script")
    /\ pc' = "raised"
    /\ frame' = NoFrame
    /\ UNCHANGED direct_vars
    /\ UNCHANGED <<env_vars, chan_vars, ctx_vars, user_request, script,
                   fixed_script, execution_result, returned, events, cycles>>

\* process_request lines 116-120: the repair
PR_Fix(s, backend) ==
    /\ pc = "fix"
    /\ ~execution_result.success
    /\ backend # "ok" => s = ScriptCube
    /\ LET error_output ==
              IF "error_output" \in DOMAIN execution_result
              THEN execution_result.error_output
              ELSE <<execution_result.error>>
       IN events' = Append(events, [e |-> "fix", script |-> script,
                                    error |-> error_output,
                                    backend |-> backend])
    /\ fixed_script' = generate_response(s, backend)
    /\ frame' = NewFrame(generate_response(s, backend))
    /\ pc' = "exec2"
    /\ UNCHANGED direct_vars
    /\ UNCHANGED <<env_vars, chan_vars, ctx_vars, user_request, script,
                   execution_result, returned, raised, cycles>>

\* process_request lines 122-134
PR_Log(t) ==
    /\ pc = "log"
    /\ t >= clock
    /\ LET r == add_interaction(interactions, context_data, user_request,
                                script, execution_result, t)
       IN /\ interactions' = r.interactions
          /\ context_data' = r.context_data
          /\ clock' = t
          /\ raised' = IF r.fault = None THEN None
                        ELSE Escaped(r.fault, "add_interaction")
          /\ pc' = IF r.fault = None THEN "done" ELSE "raised"
          /\ returned' = IF r.fault = None
                         THEN ScriptRecord(script, execution_result)
                         ELSE None
    /\ events' = Append(events, [e |-> "history", ai_response |-> script,
                                 outcome |-> execution_result])
    /\ UNCHANGED direct_vars
    /\ UNCHANGED <<env_vars, chan_vars, user_request, script, fixed_script,
                   execution_result, frame, cycles>>

Next ==
    \/ \E p \in PluginPool : register_plugin(p)
    \/ set_fusion_app
    \/ \E request \in RequestPool, t \in Times : PR_Begin(request, t)
    \/ \E t \in Times : PR_PluginResult(t)
    \/ \E s \in ScriptPool, backend \in BackendOutcomes : PR_Generate(s, backend)
    \/ ES_Validate
    \/ ES_Setup
    \/ ES_Exec
    \/ ES_Return
    \/ ES_Except
    \/ ES_Escape
    \/ \E s \in ScriptPool, backend \in BackendOutcomes : PR_Fix(s, backend)
    \/ \E t \in Times : PR_Log(t)

Spec == Init /\ [][Next]_vars

(***************************************************************************)
(* A validator called on its own (as the tests of the repository's         *)
(* executors do), on texts of up to MaxStatements statements               *)
(***************************************************************************)
MaxStatements == 2

ValidatorClasses == {"ScriptValidator", "FusionScriptValidator"}
ProfileOf(validator) == IF validator = "ScriptValidator" THEN "generic" ELSE "fusion"

\* a dotted module name, from its parts
RECURSIVE JoinDots(_)
JoinDots(parts) ==
    IF Len(parts) = 1 THEN parts[1]
    ELSE parts[1] \o "." \o JoinDots(Tail(parts))

ModulePool ==
    {<<"os">>, <<"subprocess">>, <<"socket">>, <<"urllib">>,
     <<"urllib", "request">>, <<"adsk", "core">>}

CalleePool ==
    {Name("eval"), Name("exec"), Name("__import__"), Name("open"), Name("print"),
     Attribute(Name("os"), "remove"),
     Attribute(Name("subprocess"), "run"),
     Attribute(Name("shutil"), "rmtree"),
     Attribute(Attribute(Name("os"), "path"), "join"),
     Attribute(Name("doc"), "open"),
     Attribute(Attribute(Name("x"), "os"), "remove"),
     Attribute(Call(Name("get"), <<>>), "eval")}

\* print("open file"): a line the regex pass warns about, and no error
WARNING_LINE == Expr(Call(Name("print"), <<Constant(<<"open", "file">>)>>))

SimpleStatements ==
    {Import(<<JoinDots(m)>>) : m \in ModulePool}
        \cup {Import(<<"subprocess", "socket">>)}
        \cup {ImportFrom(JoinDots(m)) : m \in ModulePool}
        \cup {Expr(Call(f, <<>>)) : f \in CalleePool}
        \cup {WARNING_LINE}

\* if True: <statement>
NestedStatements ==
    {If(<<st>>) : st \in {Import(<<"urllib">>), Import(<<"socket">>),
                          ImportFrom("subprocess"),
                          Expr(Call(Name("eval"), <<>>)),
                          Expr(Call(Attribute(Name("os"), "remove"), <<>>))}}

StatementPool == SimpleStatements \cup NestedStatements

ValidatorInputs ==
    {Parsed(body) :
        body \in UNION {[1..n -> StatementPool] : n \in 0..MaxStatements}}
        \cup {Unparseable("SyntaxError"), Unparseable("ValueError")}

InitValidator ==
    /\ InitProgram
    /\ v_validator \in ValidatorClasses
    /\ v_script \in ValidatorInputs
    /\ v_result = None
    /\ v_before = None
    /\ NoCallers

\* result = validator.validate_script(script)
Validate ==
    /\ v_result = None
    /\ v_result' = validate_script(v_script, ProfileOf(v_validator))
    /\ UNCHANGED <<v_validator, v_script, v_before, caller_vars, program_vars>>

\* the caller adds a line to the text and validates the longer text
ValidateExtended(line) ==
    /\ v_result # None
    /\ v_before = None
    /\ v_script' = IF v_script.parse = "ok"
                   THEN Parsed(Append(v_script.body, line))
                   ELSE v_script
    /\ v_before' = v_result
    /\ v_result' = validate_script(v_script', ProfileOf(v_validator))
    /\ UNCHANGED <<v_validator, caller_vars, program_vars>>

NextValidator ==
    \/ Validate
    \/ ValidateExtended(WARNING_LINE)

SpecValidator == InitValidator /\ [][NextValidator]_vars

(***************************************************************************)
(* Two threads of one process, each inside one execute_script call of the  *)
(* same executor.  sys.stdout and sys.stderr are attributes of the sys     *)
(* module, shared by the threads; each call keeps its own locals.          *)
(***************************************************************************)
Threads == {1, 2}

ConcurrentScripts == {ScriptCube, ScriptApi, ScriptSubprocess}

\* the locals of one execute_script call at its entry
NewRun(s) ==
    [xpc |-> "validate", script |-> s, validation_result |-> None,
     old_stdout |-> -1, old_stderr |-> -1, stdout_capture |-> -1,
     stderr_capture |-> -1, exec_globals |-> <<>>, fault |-> None,
     outcome |-> None, overlapped |-> FALSE]

InitConcurrent ==
    /\ InitProgram
    /\ NoValidatorCall
    /\ runs \in [Threads -> {NewRun(s) : s \in ConcurrentScripts}]
    /\ config = OllamaConfig
    /\ provider = "OllamaProvider"
    /\ added = 0
    /\ recent = None
    /\ should_execute = FALSE

\* the call of thread t is between its redirection and its restore
Redirected(t) == runs[t].xpc \in {"exec", "ran"}

\* lines 143-154: validation and the early return of a refused script
T_Validate(t) ==
    /\ runs[t].xpc = "validate"
    /\ LET vr == validate_script(runs[t].script, Profile(command_executor))
       IN runs' = [runs EXCEPT ![t] =
                      IF Refused(vr)
                      THEN [@ EXCEPT !.outcome = ValidationFailed(vr),
                                     !.xpc = "returned"]
                      ELSE [@ EXCEPT !.validation_result = vr,
                                     !.xpc = "setup"]]
    /\ UNCHANGED <<v_validator, v_script, v_result, v_before, config, provider,
                   added, recent, should_execute, program_vars>>

\* lines 164-171: the call saves the current channels, whichever they are,
\* and puts its own captures in their place
T_Setup(t) ==
    /\ runs[t].xpc = "setup"
    /\ LET stdout_capture == Cardinality(DOMAIN buffers)
           stderr_capture == Cardinality(DOMAIN buffers) + 1
       IN /\ runs' = [runs EXCEPT ![t] =
                         [@ EXCEPT
                             !.old_stdout = sys_stdout,
                             !.old_stderr = sys_stderr,
                             !.stdout_capture = stdout_capture,
                             !.stderr_capture = stderr_capture,
                             !.exec_globals =
                                 ExecGlobals(command_executor, fusion_app,
                                             in_fusion),
                             !.overlapped =
                                 \E u \in Threads \ {t} : Redirected(u),
                             !.xpc = "exec"]]
          /\ sys_stdout' = stdout_capture
          /\ sys_stderr' = stderr_capture
          /\ buffers' = [i \in DOMAIN buffers \cup {stdout_capture, stderr_capture} |->
                            IF i \in DOMAIN buffers THEN buffers[i] ELSE <<>>]
    /\ UNCHANGED <<v_validator, v_script, v_result, v_before, config, provider,
                   added, recent, should_execute>>
    /\ UNCHANGED <<env_vars, ctx_vars, pc, user_request, script, fixed_script,
                   execution_result, frame, returned, raised, events, cycles>>

\* line 277: print writes to whatever sys.stdout is when the script runs
T_Exec(t) ==
    /\ runs[t].xpc = "exec"
    /\ LET st == ExecBody(runs[t].script.body,
                          [g |-> runs[t].exec_globals, out |-> <<>>,
                           fault |-> None],
                          Builtins(command_executor), in_fusion)
       IN /\ runs' = [runs EXCEPT ![t] =
                         [@ EXCEPT !.exec_globals = st.g, !.fault = st.fault,
                                   !.xpc = "ran"]]
          /\ buffers' = [buffers EXCEPT ![sys_stdout] = @ \o st.out]
    /\ UNCHANGED <<v_validator, v_script, v_result, v_before, config, provider,
                   added, recent, should_execute>>
    /\ UNCHANGED <<env_vars, sys_stdout, sys_stderr, ctx_vars, pc, user_request,
                   script, fixed_script, execution_result, frame, returned,
                   raised, events, cycles>>

\* the channels, were the restore of lines 280-281 and 300-301 left out
RestoredChannels_kept(run) == [stdout |-> sys_stdout, stderr |-> sys_stderr]

\* lines 280-281 and 300-301: sys.stdout = old_stdout; sys.stderr = old_stderr
RestoredChannels(run) == [stdout |-> run.old_stdout, stderr |-> run.old_stderr]

\* lines 279-296: the run ended normally
T_Return(t) ==
    /\ runs[t].xpc = "ran"
    /\ runs[t].fault = None
    /\ sys_stdout' = RestoredChannels(runs[t]).stdout
    /\ sys_stderr' = RestoredChannels(runs[t]).stderr
    /\ runs' = [runs EXCEPT ![t] =
                   [@ EXCEPT !.outcome =
                                 Completed(runs[t].validation_result,
                                           buffers[runs[t].stdout_capture],
                                           buffers[runs[t].stderr_capture],
                                           runs[t].exec_globals),
                             !.xpc = "returned"]]
    /\ UNCHANGED <<v_validator, v_script, v_result, v_before, config, provider,
                   added, recent, should_execute>>
    /\ UNCHANGED <<env_vars, buffers, ctx_vars, pc, user_request, script,
                   fixed_script, execution_result, frame, returned, raised,
                   events, cycles>>

\* lines 298-313: the run raised an Exception
T_Except(t) ==
    /\ runs[t].xpc = "ran"
    /\ runs[t].fault # None
    /\ IsException(runs[t].fault.cls)
    /\ sys_stdout' = RestoredChannels(runs[t]).stdout
    /\ sys_stderr' = RestoredChannels(runs[t]).stderr
    /\ runs' = [runs EXCEPT ![t] =
                   [@ EXCEPT !.outcome =
                                 [success |-> FALSE,
                                  error |-> runs[t].fault.msg,
                                  details |-> runs[t].validation_result,
                                  output |-> buffers[runs[t].stdout_capture],
                                  error_output |-> buffers[runs[t].stderr_capture],
                                  result |-> None],
                             !.xpc = "returned"]]
    /\ UNCHANGED <<v_validator, v_script, v_result, v_before, config, provider,
                   added, recent, should_execute>>
    /\ UNCHANGED <<env_vars, buffers, ctx_vars, pc, user_request, script,
                   fixed_script, execution_result, frame, returned, raised,
                   events, cycles>>

NextConcurrent ==
    \E t \in Threads :
        \/ T_Validate(t)
        \/ T_Setup(t)
        \/ T_Exec(t)
        \/ T_Return(t)
        \/ T_Except(t)

SpecConcurrent == InitConcurrent /\ [][NextConcurrent]_vars

(***************************************************************************)
(* Construction of FusionMCP under a configuration, followed by request    *)
(* cycles on the object constructed                                        *)
(***************************************************************************)
\* dict.get's default applies when the entry is absent
ABSENT == "<absent>"

GEMINI == <<"g", "e", "m", "i", "n", "i">>
OPENAI == <<"o", "p", "e", "n", "a", "i">>
OLLAMA == <<"o", "l", "l", "a", "m", "a">>
LM_STUDIO == <<"l", "m", "_", "s", "t", "u", "d", "i", "o">>

Config(name, keys, env) == [ai_provider |-> name, keys |-> keys, env |-> env]

\* the configurations studied; keys and env hold the names of the entries
\* that have a non-empty value in the file and in the environment
ConfigPool ==
    {Config(ABSENT, {}, {}),
     Config(ABSENT, {}, {"OPENAI_API_KEY"}),
     Config(ABSENT, {"gemini_api_key"}, {}),
     Config(<<"G", "e", "m", "i", "n", "i">>, {"gemini_api_key"}, {}),
     Config(<<"G", "e", "m", "i", "n", "i">>, {}, {"OPENAI_API_KEY"}),
     Config(LM_STUDIO, {}, {}),
     Config(<<"c", "l", "a", "u", "d", "e">>, {"openai_api_key"}, {"GEMINI_API_KEY"})}

\* _initialize_provider, were the keys looked up only when a request is sent
initialize_provider_lazy(c) ==
    LET provider_type == lower(IF c.ai_provider = ABSENT THEN OPENAI
                               ELSE c.ai_provider)
    IN IF provider_type = GEMINI
       THEN [provider |-> "GeminiProvider", fault |-> None]
       ELSE IF provider_type = OPENAI
       THEN [provider |-> "OpenAIProvider", fault |-> None]
       ELSE IF provider_type = OLLAMA
       THEN [provider |-> "OllamaProvider", fault |-> None]
       ELSE IF provider_type = LM_STUDIO
       THEN [provider |-> "LMStudioProvider", fault |-> None]
       ELSE [provider |-> "unset",
             fault |-> Fault("ValueError", "Unsupported AI provider")]

\* ai_interface.py lines 235-264
initialize_provider(c) ==
    LET provider_type == lower(IF c.ai_provider = ABSENT THEN OPENAI
                               ELSE c.ai_provider)
    IN IF provider_type = GEMINI
       THEN IF "gemini_api_key" \notin c.keys /\ "GEMINI_API_KEY" \notin c.env
            THEN [provider |-> "unset",
                  fault |-> Fault("ValueError",
                                  "Gemini API key not found in config or environment")]
            ELSE [provider |-> "GeminiProvider", fault |-> None]
       ELSE IF provider_type = OPENAI
       THEN IF "openai_api_key" \notin c.keys /\ "OPENAI_API_KEY" \notin c.env
            THEN [provider |-> "unset",
                  fault |-> Fault("ValueError",
                                  "OpenAI API key not found in config or environment")]
            ELSE [provider |-> "OpenAIProvider", fault |-> None]
       ELSE IF provider_type = OLLAMA
       THEN [provider |-> "OllamaProvider", fault |-> None]
       ELSE IF provider_type = LM_STUDIO
       THEN [provider |-> "LMStudioProvider", fault |-> None]
       ELSE [provider |-> "unset",
             fault |-> Fault("ValueError", "Unsupported AI provider")]

\* before FusionMCP(config_path) is called: pc = "new"
InitStartup ==
    /\ InitObjects
    /\ pc = "new"
    /\ NoValidatorCall
    /\ runs = <<>>
    /\ config \in ConfigPool
    /\ provider = "unset"
    /\ added = 0
    /\ recent = None
    /\ should_execute = FALSE

\* fusion_mcp_main.py lines 30-36: AIInterface(config_path) is constructed
\* inside FusionMCP.__init__; what _initialize_provider raises leaves the
\* constructor and no FusionMCP object exists
FusionMCP_init ==
    /\ pc = "new"
    /\ LET r == initialize_provider(config)
       IN /\ provider' = r.provider
          /\ raised' = IF r.fault = None THEN None
                        ELSE Escaped(r.fault, "__init__")
          /\ pc' = IF r.fault = None THEN "idle" ELSE "config_fault"
    /\ UNCHANGED <<v_validator, v_script, v_result, v_before, runs, config,
                   added, recent, should_execute>>
    /\ UNCHANGED <<env_vars, chan_vars, ctx_vars, user_request, script,
                   fixed_script, execution_result, frame, returned, events,
                   cycles>>

NextStartup ==
    \/ FusionMCP_init
    \/ \E request \in RequestPool, t \in Times : PR_Begin(request, t)
    \/ \E s \in ScriptPool, backend \in BackendOutcomes : PR_Generate(s, backend)
    \/ ES_Validate
    \/ ES_Setup
    \/ ES_Exec
    \/ ES_Return
    \/ ES_Except
    \/ ES_Escape
    \/ \E s \in ScriptPool, backend \in BackendOutcomes : PR_Fix(s, backend)
    \/ \E t \in Times : PR_Log(t)

SpecStartup == InitStartup /\ [][NextStartup]_vars

(***************************************************************************)
(* Calls made on the ContextManager by a caller of its own                 *)
(***************************************************************************)
MaxCalls == 51
MaxCount == 2

\* the text of the n-th call, which tells its record from the others
RequestNo(n) == <<n>>

\* context_manager.py lines 40-42 and 140-142: self.interactions[-count:];
\* -0 is 0, and list[0:] is the whole list
get_recent_context(list, count) ==
    IF count = 0 \/ count >= Len(list) THEN list
    ELSE SubSeq(list, Len(list) - count + 1, Len(list))

\* context_manager.py lines 115-129, with arguments json can encode
CM_add_interaction(t) ==
    /\ pc = "idle"
    /\ added < MaxCalls
    /\ LET r == add_interaction(interactions, context_data,
                                RequestNo(added + 1), Text(""), None, t)
       IN /\ r.fault = None
          /\ interactions' = r.interactions
          /\ context_data' = r.context_data
    /\ clock' = t
    /\ added' = added + 1
    /\ recent' = None
    /\ UNCHANGED <<v_validator, v_script, v_result, v_before, runs, config,
                   provider, should_execute>>
    /\ UNCHANGED <<env_vars, chan_vars, pc, user_request, script, fixed_script,
                   execution_result, frame, returned, raised, events, cycles>>

\* context_manager.py lines 140-142
CM_get_recent_context(count) ==
    /\ pc = "idle"
    /\ recent' = [count |-> count,
                  result |-> get_recent_context(interactions, count)]
    /\ UNCHANGED <<v_validator, v_script, v_result, v_before, runs, config,
                   provider, added, should_execute, program_vars>>

NextContext ==
    \/ \E t \in Times : CM_add_interaction(t)
    \/ \E count \in 0..MaxCount : CM_get_recent_context(count)

SpecContext == Init /\ [][NextContext]_vars

(***************************************************************************)
(* The add-in inside the host application: run() constructs FusionMCP and  *)
(* calls set_fusion_app(app); every command event calls the execute        *)
(* handler's notify with the request text and the Execute input            *)
(***************************************************************************)
InitAddIn ==
    /\ InitProgram
    /\ in_fusion = TRUE
    /\ NoValidatorCall
    /\ runs = <<>>
    /\ config = OllamaConfig
    /\ provider = "OllamaProvider"
    /\ added = 0
    /\ recent = None
    /\ should_execute \in BOOLEAN

\* FusionMCP.py lines 143-161: the handler reads a non-empty request and the
\* Execute input and calls process_request
notify(request, t) ==
    /\ pc = "idle"
    /\ fusion_app = "app"
    /\ PR_Begin(request, t)

\* lines 163-169: process_request returned a script and Execute is set; a
\* new FusionCommandExecutor is handed the script of the returned record
notify_execute ==
    /\ pc = "done"
    /\ returned.type = "fusion_script"
    /\ should_execute
    /\ frame' = NewFrame(returned.generated_script)
    /\ events' = Append(events, [e |-> "addin_execute",
                                 script |-> returned.generated_script])
    /\ pc' = "addin_exec"
    /\ UNCHANGED direct_vars
    /\ UNCHANGED <<env_vars, chan_vars, ctx_vars, user_request, script,
                   fixed_script, execution_result, returned, raised, cycles>>

\* lines 175-179: only a message box is shown, with the script when Execute
\* is unset, with 'Could not process the request.' for another record
notify_show ==
    /\ pc = "done"
    /\ returned.type = "fusion_script" => ~should_execute
    /\ pc' = "idle"
    /\ UNCHANGED direct_vars
    /\ UNCHANGED <<env_vars, chan_vars, ctx_vars, user_request, script,
                   fixed_script, execution_result, frame, returned, raised,
                   events, cycles>>

\* lines 181-184: a bare except; whatever left process_request or
\* execute_script ends in a message box
notify_except ==
    /\ pc = "raised"
    /\ pc' = "idle"
    /\ UNCHANGED direct_vars
    /\ UNCHANGED <<env_vars, chan_vars, ctx_vars, user_request, script,
                   fixed_script, execution_result, frame, returned, raised,
                   events, cycles>>

NextAddIn ==
    \/ set_fusion_app
    \/ \E request \in RequestPool, t \in Times : notify(request, t)
    \/ \E s \in ScriptPool, backend \in BackendOutcomes : PR_Generate(s, backend)
    \/ ES_Validate
    \/ ES_Setup
    \/ ES_Exec
    \/ ES_Return
    \/ ES_Except
    \/ ES_Escape
    \/ \E s \in ScriptPool, backend \in BackendOutcomes : PR_Fix(s, backend)
    \/ \E t \in Times : PR_Log(t)
    \/ notify_execute
    \/ notify_show
    \/ notify_except

SpecAddIn == InitAddIn /\ [][NextAddIn]_vars

(***************************************************************************)
(* The calls of the request cycle in progress                              *)
(***************************************************************************)
EventsOf(kind) == {i \in 1..Len(events) : events[i].e = kind}
Generations == EventsOf("generate") \cup EventsOf("fix")
\* the outcomes execute_script returned in this cycle, in order
RECURSIVE OutcomesFrom(_)
OutcomesFrom(i) ==
    IF i > Len(events) THEN <<>>
    ELSE (IF events[i].e = "return" THEN <<events[i].outcome>> ELSE <<>>)
             \o OutcomesFrom(i + 1)
Outcomes == OutcomesFrom(1)
CycleOver == pc \in {"done", "raised"}

(***************************************************************************)
(* C1: every script that is executed was validated first, in the same      *)
(* execute_script call, with the verdict is_safe = TRUE: each exec event   *)
(* is directly preceded by the validate event of the same script text and  *)
(* that event carries is_safe = TRUE.                                      *)
(***************************************************************************)
C1_ValidateBeforeExecute ==
    \A i \in EventsOf("exec") :
        /\ i > 1
        /\ events[i - 1].e = "validate"
        /\ events[i - 1].script = events[i].script
        /\ events[i - 1].is_safe
        /\ validate_script(events[i].script, Profile(command_executor)).is_safe

\* both the generated and the repaired script were executed
C1_Witness ==
    /\ Cardinality(EventsOf("exec")) = 2
    /\ Cardinality(EventsOf("fix")) = 1

(***************************************************************************)
(* C2: a step of execute_script taken with a verdict is_safe = FALSE       *)
(* returns success = FALSE, empty output, the error 'Script validation     *)
(* failed' and the verdict; it executes nothing and leaves sys.stdout and  *)
(* sys.stderr alone.                                                       *)
(***************************************************************************)
C2_UnsafeReturnsAtOnce ==
    [][(/\ frame.xpc = "validate"
        /\ ~validate_script(frame.script, Profile(command_executor)).is_safe)
       => /\ execution_result' =
                [success |-> FALSE,
                 error |-> "Script validation failed",
                 details |-> validate_script(frame.script, Profile(command_executor)),
                 output |-> <<>>,
                 result |-> None]
          /\ frame'.xpc = "none"
          /\ pc' \in {"fix", "log"}
          /\ EventsOf("exec")' = EventsOf("exec")
          /\ UNCHANGED <<sys_stdout, sys_stderr, buffers>>]_vars

\* a script was refused by the validator and the refusal is the outcome
C2_Witness ==
    /\ pc = "fix"
    /\ execution_result.error = "Script validation failed"
    /\ ~execution_result.details.is_safe
    /\ EventsOf("exec") = {}

(***************************************************************************)
(* C3: a cycle makes at most two generation calls and at most two script   *)
(* executions, and a cycle that made the repair ends by returning the      *)
(* second outcome, whether it succeeded or not.                            *)
(***************************************************************************)
C3_OneRepairSecondOutcomeReturned ==
    /\ Cardinality(Generations) <= 2
    /\ Cardinality(EventsOf("exec")) <= 2
    /\ Cardinality(EventsOf("validate")) <= 2
    /\ (CycleOver /\ Len(Outcomes) = 2)
          => /\ returned # None
             /\ returned.execution_result = Outcomes[2]

(***************************************************************************)
(* C4: the repair is made if and only if the first outcome has             *)
(* success = FALSE; a cycle whose first script runs without fault makes    *)
(* one generation call and one execution and returns the first outcome.    *)
(***************************************************************************)
C4_RepairIffFirstFails ==
    /\ (EventsOf("fix") # {}) => (Len(Outcomes) >= 1 /\ ~Outcomes[1].success)
    /\ (CycleOver /\ Len(Outcomes) >= 1 /\ ~Outcomes[1].success)
          => EventsOf("fix") # {}
    /\ (CycleOver /\ Len(Outcomes) >= 1 /\ Outcomes[1].success)
          => /\ Cardinality(Generations) = 1
             /\ Cardinality(EventsOf("exec")) = 1
             /\ returned # None
             /\ returned.execution_result = Outcomes[1]

(***************************************************************************)
(* C5: when the first script fails at run time and the repaired script     *)
(* succeeds, the record process_request returns and the record logged to   *)
(* the history name the repaired script with its outcome, success = TRUE:  *)
(* the script reported is the script whose outcome is reported.            *)
(***************************************************************************)
RepairSucceeded ==
    /\ Len(Outcomes) = 2
    /\ ~Outcomes[1].success
    /\ Outcomes[1].details.is_safe
    /\ Outcomes[2].success

C5_RepairedScriptReported ==
    (CycleOver /\ RepairSucceeded)
        => /\ returned # None
           /\ returned.execution_result = Outcomes[2]
           /\ returned.generated_script = fixed_script
           /\ interactions[Len(interactions)].execution_result = Outcomes[2]
           /\ interactions[Len(interactions)].ai_response = fixed_script

(***************************************************************************)
(* C6: whenever no execute_script call is between its channel swap and     *)
(* its return, sys.stdout and sys.stderr are the original streams, however *)
(* the run of the script ended.                                            *)
(***************************************************************************)
C6_ChannelsRestored ==
    (frame.xpc \in {"none", "validate", "setup"})
        => (sys_stdout = ORIGINAL_STDOUT /\ sys_stderr = ORIGINAL_STDERR)

(***************************************************************************)
(* C7: no fault leaves execute_script: whatever the script does, the call  *)
(* returns an outcome record.                                              *)
(***************************************************************************)
C7_NothingEscapesExecuteScript ==
    raised # None => raised.origin # "execute_script"

(***************************************************************************)
(* C8: a request cycle that ran to completion called the history exactly   *)
(* twice: first of all calls of the cycle, with the request, an empty      *)
(* response and no outcome, and last of all calls, with the outcome the    *)
(* cycle returns; the session list ends with these two records.            *)
(***************************************************************************)
C8_TwoPhaseLogging ==
    pc = "done" =>
        /\ Cardinality(EventsOf("history")) = 2
        /\ events[1] = [e |-> "history", ai_response |-> Text(""), outcome |-> None]
        /\ events[Len(events)].e = "history"
        /\ events[Len(events)].outcome =
              (IF returned.type = "plugin_result" THEN returned
               ELSE returned.execution_result)
        /\ Len(interactions) >= 2
        /\ LET first == interactions[Len(interactions) - 1]
               second == interactions[Len(interactions)]
           IN /\ first.user_input = user_request
              /\ first.ai_response = Text("")
              /\ first.execution_result = None
              /\ second.user_input = user_request
              /\ second.execution_result = events[Len(events)].outcome

\* a cycle on the script path has completed
C8_Witness ==
    /\ pc = "done"
    /\ returned.type = "fusion_script"
    /\ Cardinality(EventsOf("fix")) = 1

C10_TaggedOutcome ==
    returned # None =>
        /\ returned.type \in {"plugin_result", "fusion_script"}
        /\ (returned.type = "plugin_result")
              <=> (Generations = {} /\ EventsOf("validate") = {})
        /\ (returned.type = "plugin_result")
              => (~returned.script_generated /\ returned.execution_result = None)
        /\ (returned.type = "fusion_script")
              => /\ returned.script_generated
                 /\ returned.execution_result # None
                 /\ Len(Outcomes) >= 1
                 /\ returned.execution_result = Outcomes[Len(Outcomes)]
                 /\ EventsOf("generate") # {}

\* a generated script was refused or failed twice and the cycle returned
C10_Witness ==
    /\ returned # None
    /\ returned.type = "fusion_script"
    /\ ~returned.execution_result.success

(***************************************************************************)
(* C11: a failure of the history to record an interaction never fails the  *)
(* request cycle: no exception raised by add_interaction leaves            *)
(* process_request.                                                        *)
(***************************************************************************)
C11_HistoryFailureDoesNotFailCycle ==
    raised # None => raised.origin # "add_interaction"

(***************************************************************************)
(* C12: every request cycle that ends, ends with an outcome record         *)
(* returned by process_request and with no exception raised to its caller. *)
(***************************************************************************)
C12_AlwaysStructuredOutcome ==
    CycleOver => (raised = None /\ returned # None)

(***************************************************************************)
(* C13: in a cycle whose first generation call ended in a transport fault  *)
(* (connection refused or timed out) no second call is made to the         *)
(* generation backend, and the record returned carries the text that tells *)
(* the two faults apart.                                                   *)
(***************************************************************************)
C13_NoRetryAfterTransportFault ==
    \A i \in EventsOf("generate") :
        events[i].backend # "ok" =>
            /\ EventsOf("fix") = {}
            /\ returned # None =>
                  returned.generated_script =
                     generate_response(ScriptCube, events[i].backend)

(***************************************************************************)
(* C14: the repair request names the script that failed and its error      *)
(* summary: the error text handed to validate_and_fix_script is the error  *)
(* of the first outcome (the fault description of the run, or 'Script      *)
(* validation failed'), and it is not empty.                               *)
(***************************************************************************)
C14_RepairErrorText ==
    \A i \in EventsOf("fix") :
        /\ events[i].script = script
        /\ Len(Outcomes) >= 1
        /\ events[i].error = <<Outcomes[1].error>>
        /\ events[i].error # <<>>

(***************************************************************************)
(* C15: in every verdict of validate_script, of either validator,          *)
(* is_safe is FALSE exactly when the errors list is not empty; a line that *)
(* only produces a warning, added to a text that parses, adds one warning  *)
(* and leaves is_safe and the errors as they were.                         *)
(***************************************************************************)
C15_UnsafeIffErrors ==
    /\ v_result # None => (~v_result.is_safe <=> v_result.errors # <<>>)
    /\ (v_before # None /\ v_script.parse = "ok")
          => /\ v_result.is_safe = v_before.is_safe
             /\ v_result.errors = v_before.errors
             /\ Len(v_result.warnings) = Len(v_before.warnings) + 1

\* a text with a warning and no error got the verdict is_safe = TRUE
C15_Witness ==
    /\ v_before # None
    /\ v_result.warnings # <<>>
    /\ v_result.errors = <<>>
    /\ v_result.is_safe

(***************************************************************************)
(* C16: a text that does not parse gets the verdict is_safe = FALSE with   *)
(* exactly one error, the description of the syntax problem, and           *)
(* execute_script returns that verdict at once: the text is never          *)
(* executed.                                                               *)
(***************************************************************************)
C16_SyntaxErrorRefused ==
    \A i \in EventsOf("validate") :
        events[i].script.parse = "SyntaxError" =>
            /\ ~events[i].is_safe
            /\ i < Len(events)
            /\ events[i + 1].e = "return"
            /\ ~events[i + 1].outcome.success
            /\ ~events[i + 1].outcome.details.is_safe
            /\ events[i + 1].outcome.details.errors = <<"Syntax error: invalid syntax">>
            /\ \A j \in EventsOf("exec") : events[j].script # events[i].script

\* a text that does not parse was generated, refused, and the cycle returned
C16_Witness ==
    /\ pc = "done"
    /\ script # None
    /\ script.parse = "SyntaxError"
    /\ \E i \in EventsOf("validate") : events[i].script = script

(***************************************************************************)
(* The imports and the calls of the text handed to the validator           *)
(***************************************************************************)
NodesOf(text) == IF text.parse = "ok" THEN walk(text.body) ELSE <<>>

\* the module parts m is imported by a plain import or by a from-import
ImportedPlain(text, m) ==
    \E i \in 1..Len(NodesOf(text)) :
        /\ NodesOf(text)[i].k = "Import"
        /\ \E j \in 1..Len(NodesOf(text)[i].names) :
              NodesOf(text)[i].names[j] = JoinDots(m)
ImportedFrom(text, m) ==
    \E i \in 1..Len(NodesOf(text)) :
        /\ NodesOf(text)[i].k = "ImportFrom"
        /\ NodesOf(text)[i].module = JoinDots(m)

InErrors(verdict, message) ==
    \E i \in 1..Len(verdict.errors) : verdict.errors[i] = message

\* the identifiers of an attribute chain that starts at a plain identifier
RECURSIVE RootedAtName(_)
RootedAtName(e) ==
    \/ e.k = "Name"
    \/ e.k = "Attribute" /\ RootedAtName(e.value)
RECURSIVE Identifiers(_)
Identifiers(e) ==
    IF e.k = "Name" THEN <<e.id>> ELSE Identifiers(e.value) \o <<e.attr>>
CallsOf(text) == {i \in 1..Len(NodesOf(text)) : NodesOf(text)[i].k = "Call"}
CallErrors(verdict) ==
    {i \in 1..Len(verdict.errors) :
        \E n \in DANGEROUS_FUNCTIONS("generic") :
            verdict.errors[i] = "Dangerous function call: " \o n}

(***************************************************************************)
(* C17: a text that parses and imports a module on the import denylist of  *)
(* the validator, or a submodule of one, by import or from-import at any   *)
(* depth, gets is_safe = FALSE and an error naming that import.            *)
(***************************************************************************)
C17_DenylistedImportsReported ==
    v_result # None =>
        \A m \in ModulePool :
            m[1] \in DANGEROUS_IMPORTS(ProfileOf(v_validator)) =>
                /\ ImportedPlain(v_script, m) =>
                      /\ ~v_result.is_safe
                      /\ InErrors(v_result, "Dangerous import found: " \o JoinDots(m))
                /\ ImportedFrom(v_script, m) =>
                      /\ ~v_result.is_safe
                      /\ InErrors(v_result, "Dangerous import found: from " \o JoinDots(m))

(***************************************************************************)
(* C18: for every call of a text that parses, the verdict has the error    *)
(* 'Dangerous function call: <name>', <name> the dot-joined identifiers of *)
(* the callee from its root name, exactly when <name> is on the callable   *)
(* denylist of the validator; a callee that does not start at a plain      *)
(* identifier resolves to no denylisted name; there is one such error for  *)
(* each denylisted call and no other.                                      *)
(***************************************************************************)
C18_DenylistedCallsReported ==
    v_result # None =>
        LET denylist == DANGEROUS_FUNCTIONS(ProfileOf(v_validator))
            nodes == NodesOf(v_script)
            flagged == {i \in CallsOf(v_script) :
                            /\ RootedAtName(nodes[i].func)
                            /\ JoinDots(Identifiers(nodes[i].func)) \in denylist}
        IN /\ \A i \in CallsOf(v_script) :
                IF RootedAtName(nodes[i].func)
                THEN LET name == JoinDots(Identifiers(nodes[i].func))
                     IN /\ get_function_name(nodes[i]) = name
                        /\ InErrors(v_result, "Dangerous function call: " \o name)
                              <=> name \in denylist
                ELSE /\ get_function_name(nodes[i]) \notin DANGEROUS_FUNCTIONS("generic")
                     /\ ~InErrors(v_result, "Dangerous function call: "
                                              \o get_function_name(nodes[i]))
           /\ Cardinality(CallErrors(v_result)) = Cardinality(flagged)

\* os.remove(...) in a nested block was reported by the generic validator,
\* next to a call through a non-identifier root that was not
C18_Witness ==
    /\ v_result # None
    /\ v_validator = "ScriptValidator"
    /\ v_script.parse = "ok"
    /\ InErrors(v_result, "Dangerous function call: os.remove")
    /\ \E i \in CallsOf(v_script) : ~RootedAtName(NodesOf(v_script)[i].func)
    /\ Cardinality(CallErrors(v_result)) = 1

(***************************************************************************)
(* C19: the validator of the host-embedded executor refuses every text     *)
(* that calls eval, exec or __import__ or imports a module the generic     *)
(* validator denies; the two denylists differ only in the filesystem and   *)
(* process callables.                                                      *)
(***************************************************************************)
C19_HostKeepsEscapePrimitives ==
    /\ {"eval", "exec", "__import__"} \subseteq DANGEROUS_FUNCTIONS("fusion")
    /\ (v_result # None /\ v_validator = "FusionScriptValidator")
          => /\ (\E m \in ModulePool :
                    /\ JoinDots(m) \in DANGEROUS_IMPORTS("generic")
                    /\ ImportedPlain(v_script, m) \/ ImportedFrom(v_script, m))
                  => ~v_result.is_safe
             /\ (\E i \in CallsOf(v_script) :
                    get_function_name(NodesOf(v_script)[i])
                        \in {"eval", "exec", "__import__"})
                  => ~v_result.is_safe

(***************************************************************************)
(* C20: the namespace a script runs in holds no primitive of the callable  *)
(* denylist: none of open, exec, eval, __import__ is among the             *)
(* __builtins__ handed to the script, and no module gets bound in the      *)
(* namespace by the run.                                                   *)
(***************************************************************************)
C20_NoDenylistedPrimitiveInNamespace ==
    frame.xpc \in {"exec", "ran"} =>
        /\ Builtins(command_executor) \cap {"open", "exec", "eval", "__import__"} = {}
        /\ \A n \in DOMAIN frame.exec_globals : frame.exec_globals[n].t # "module"

(***************************************************************************)
(* C21: a chain of attribute accesses and calls on a stand-in never        *)
(* raises: no run ends with the fault of an attribute looked up on what a  *)
(* stand-in handed out.                                                    *)
(***************************************************************************)
C21_StandInsClosed ==
    \A i \in EventsOf("return") :
        events[i].outcome.error # "'function' object has no attribute 'get'"

(***************************************************************************)
(* C22: the namespace built without a host handle binds every name the     *)
(* namespace built with a host handle binds: app, adsk, core and fusion.   *)
(***************************************************************************)
C22_SameNamesWithoutHost ==
    (frame.xpc \in {"exec", "ran"} /\ command_executor = "CommandExecutor"
        /\ fusion_app = "None")
        => {"app", "adsk", "core", "fusion"} \subseteq DOMAIN frame.exec_globals

(***************************************************************************)
(* C23: the run of raise RuntimeError("boom") returns success = FALSE and  *)
(* an error summary that holds the message of the fault raised, "boom".    *)
(***************************************************************************)
C23_ErrorSummaryHasMessage ==
    \A i \in EventsOf("return") :
        (i > 1 /\ events[i - 1].e = "exec" /\ events[i - 1].script = ScriptBoom)
            => /\ ~events[i].outcome.success
               /\ events[i].outcome.error = "boom"

(***************************************************************************)
(* C24: a run that completes without raising returns success = TRUE, no    *)
(* error, exactly the lines the script printed as output, the captured     *)
(* stderr, the verdict and the namespace of the run.                       *)
(***************************************************************************)
\* the lines the statements print("...") of a body print, in order
RECURSIVE PrintedLines(_)
PrintedLines(body) ==
    IF body = <<>> THEN <<>>
    ELSE (IF /\ Head(body).k = "Expr"
             /\ Head(body).value.k = "Call"
             /\ Head(body).value.func = Name("print")
          THEN <<JoinWords(Head(body).value.args[1].value)>>
          ELSE <<>>) \o PrintedLines(Tail(body))

C24_CompletedRunOutcome ==
    \A i \in EventsOf("return") :
        events[i].outcome.success =>
            /\ i > 1
            /\ events[i - 1].e = "exec"
            /\ events[i].outcome.error = NoneStr
            /\ events[i].outcome.output = PrintedLines(events[i - 1].script.body)
            /\ events[i].outcome.error_output = <<>>
            /\ events[i].outcome.details.is_safe
            /\ "__builtins__" \in DOMAIN events[i].outcome.result

\* the script that prints "Cube created" ran and the line is in the outcome
C24_Witness ==
    \E i \in EventsOf("return") :
        /\ events[i].outcome.success
        /\ events[i].outcome.output = <<"Cube created">>

(***************************************************************************)
(* C27: every outcome record execute_script returns has the six fields     *)
(* success, output, error_output, error, details and result.               *)
(***************************************************************************)
C27_OutcomeHasAllFields ==
    \A i \in EventsOf("return") :
        DOMAIN events[i].outcome =
            {"success", "output", "error_output", "error", "details", "result"}

(***************************************************************************)
(* C25: the redirection of sys.stdout and sys.stderr is shared by every    *)
(* execute_script call of the process.  When no call redirects while       *)
(* another is redirected (the calls are serialized), every call that ran   *)
(* its script reports exactly the lines its own script printed, and the    *)
(* channels are the original ones whenever no call is redirected.  When    *)
(* the calls interleave, the witness below is reached: both calls have     *)
(* returned, sys.stdout is not the original channel, and one call reports  *)
(* an output that is not what its script printed.                          *)
(***************************************************************************)
Serialized == \A t \in Threads : ~runs[t].overlapped

C25_SerializedRunsIsolated ==
    Serialized =>
        /\ \A t \in Threads :
               (runs[t].xpc = "returned" /\ runs[t].stdout_capture # -1) =>
                   runs[t].outcome.output = PrintedLines(runs[t].script.body)
        /\ (\A t \in Threads : ~Redirected(t)) =>
               /\ sys_stdout = ORIGINAL_STDOUT
               /\ sys_stderr = ORIGINAL_STDERR

C25_Witness ==
    /\ \A t \in Threads : runs[t].xpc = "returned"
    /\ \E t \in Threads : runs[t].overlapped
    /\ sys_stdout # ORIGINAL_STDOUT
    /\ \E t \in Threads :
           /\ runs[t].stdout_capture # -1
           /\ runs[t].outcome.output # PrintedLines(runs[t].script.body)

(***************************************************************************)
(* C26: a configuration fault is raised by the construction of FusionMCP   *)
(* and nowhere else.  Construction raises exactly when the provider the    *)
(* configuration selects (openai when it names none) is openai or gemini   *)
(* and has no key in the file or the environment, or is a name the code    *)
(* does not support; then no request cycle, generation or execution ever   *)
(* starts.  After a construction that succeeded, nothing a request cycle   *)
(* raises comes from the constructor.                                      *)
(***************************************************************************)
SelectedProvider(c) ==
    lower(IF c.ai_provider = ABSENT THEN OPENAI ELSE c.ai_provider)

KeyEntries(name) ==
    IF name = OPENAI THEN {"openai_api_key", "OPENAI_API_KEY"}
    ELSE IF name = GEMINI THEN {"gemini_api_key", "GEMINI_API_KEY"}
    ELSE {}

ConfigFaulty(c) ==
    \/ SelectedProvider(c) \notin {OPENAI, GEMINI, OLLAMA, LM_STUDIO}
    \/ /\ SelectedProvider(c) \in {OPENAI, GEMINI}
       /\ (c.keys \cup c.env) \cap KeyEntries(SelectedProvider(c)) = {}

C26_ConfigFaultOnlyAtInit ==
    /\ pc # "new" => (ConfigFaulty(config) <=> pc = "config_fault")
    /\ pc = "config_fault" =>
           /\ raised # None
           /\ raised.origin = "__init__"
           /\ provider = "unset"
    /\ ConfigFaulty(config) =>
           /\ cycles = 0
           /\ events = <<>>
           /\ interactions = <<>>
           /\ frame = NoFrame
    /\ (pc \notin {"new", "config_fault"} /\ raised # None) =>
           raised.origin # "__init__"

C26_Witness ==
    /\ pc = "config_fault"
    /\ config.ai_provider = ABSENT
    /\ config.keys \cup config.env = {}
    /\ raised # None
    /\ raised.cls = "ValueError"

(***************************************************************************)
(* C28: the persistent history is append-only.  Every add_interaction      *)
(* stores its record under a key no earlier call used: after n calls the   *)
(* store holds n records, one for each call, also when calls fall into     *)
(* the same second and after the session list has reached its maximum.     *)
(***************************************************************************)
StoredRequests ==
    {context_data[k].value.user_input : k \in DOMAIN context_data}

C28_PersistentAppendOnly ==
    /\ Cardinality(DOMAIN context_data) = added
    /\ \A n \in 1..added : RequestNo(n) \in StoredRequests

(***************************************************************************)
(* C30: the session context is a sliding window.  After k add_interaction  *)
(* calls the session list holds the most recent min(k, 50) interactions    *)
(* in arrival order, and get_recent_context(n) returns the last            *)
(* min(n, length) of them in arrival order, for every n >= 0: none for     *)
(* n = 0.                                                                  *)
(***************************************************************************)
Min(a, b) == IF a <= b THEN a ELSE b

LastOf(list, n) == SubSeq(list, Len(list) - n + 1, Len(list))

C30_SlidingWindow ==
    /\ Len(interactions) = Min(added, MAX_INTERACTIONS)
    /\ \A i \in 1..Len(interactions) :
           interactions[i].user_input =
               RequestNo(added - Len(interactions) + i)
    /\ recent # None =>
           recent.result =
               LastOf(interactions, Min(recent.count, Len(interactions)))

(***************************************************************************)
(* C29: in the add-in a generated script runs in the host application      *)
(* only when the Execute input is set, and then at most once for a         *)
(* request: with Execute unset nothing is run, and with Execute set the    *)
(* handler does not run a script that process_request already ran.         *)
(***************************************************************************)
C29_RunsOnlyOnExecuteOnce ==
    /\ ~should_execute => EventsOf("exec") = {}
    /\ Cardinality(EventsOf("exec")) <= 1
    /\ \A i \in EventsOf("addin_execute") :
           \A j \in EventsOf("exec") :
               j < i => events[j].script # events[i].script
====
